---------------------------- MODULE Spec2Model ----------------------------
(***************************************************************************)
(* Model of the auto_lock stepper controller (lock_controller.hpp), its    *)
(* file-backed mock (mock/mock_stepper.hpp) and the mock HTTP server with  *)
(* its return-to-center worker thread (mock/mock_main.cpp).                *)
(*                                                                         *)
(* Five specifications share the variables:                                *)
(*   CtlSpec  the StepperController class driven method by method;         *)
(*   Spec     the server: request handler threads, the worker thread, the  *)
(*            signal handler and main, all around controller_mutex;        *)
(*   FairSpec the server with a fairly scheduled worker, on fewer kinds of *)
(*            request;                                                     *)
(*   FairServerSpec  FairSpec with the handler threads fairly scheduled    *)
(*            too and controller_mutex granted fairly;                     *)
(*   RestartSpec  CtlSpec with restarts of the process between the calls.  *)
(***************************************************************************)
EXTENDS Integers, Sequences, FiniteSets, TLC

VARIABLES
    controller,   \* the StepperController fields (lock_controller.hpp:28-32)
    store,        \* CONFIG_FILE on disk
    calls,        \* CtlSpec: the last two method calls and what they did
    mainpc,       \* position of main()
    html_loaded,  \* whether html_content is non-empty
    running,      \* std::atomic<bool> running
    controller_mutex, \* owner of the std::mutex, or NoThread
    wpc,          \* position of returnToCenterWorker
    pc,           \* position of each request handler thread
    req,          \* the request each handler thread is serving
    res,          \* the response each handler thread produced last
    motor,        \* the moveSteps calls that are in flight
    served,       \* number of requests accepted so far
    tally         \* what has been passed to moveSteps and completed so far

vars == <<controller, store, calls, mainpc, html_loaded, running,
          controller_mutex, wpc, pc, req, res, motor, served, tally>>

serverVars == <<mainpc, html_loaded, running, controller_mutex, wpc, pc,
                req, res, motor, served>>

-----------------------------------------------------------------------------
(* Program constants *)

SMALL_STEP == 10
LARGE_STEP == 50
MAX_CUSTOM_STEPS == 2048
MIN_CUSTOM_STEPS == 1

(* Bounds of the model *)

\* CtlSpec: step operations are explored while |current_position| <= MaxPos
MaxPos == 1
\* Spec: number of requests the server accepts in one run
MaxRequests == 2

\* CONFIG_FILE: whether it exists, and its text
NoFile == [exists |-> FALSE, text |-> <<>>]
File(text) == [exists |-> TRUE, text |-> text]
NoThread == -1
Worker == 0
\* the request handler threads of the server's pool, by number
Handlers == {1, 2}

\* (lock_position, unlock_position) pairs a previous run may have saved
StoredPairs == {<<120, 0>>, <<-30, -30>>}

\* step counts handed to stepForward / stepBackward in CtlSpec
StepArgs == {-1, 0, 1, 2}

ModeStrings == {"setup", "normal", "auto", ""}

-----------------------------------------------------------------------------
(* Text of the configuration file: sequences of one-character strings *)

Abs(n) == IF n < 0 THEN -n ELSE n

DigitChars == <<"0", "1", "2", "3", "4", "5", "6", "7", "8", "9">>

isdigit(ch) == \E i \in 1..10 : DigitChars[i] = ch

DigitValue(ch) == (CHOOSE i \in 1..10 : DigitChars[i] = ch) - 1

RECURSIVE Digits(_)
Digits(n) == IF n < 10 THEN <<DigitChars[n + 1]>>
             ELSE Digits(n \div 10) \o <<DigitChars[(n % 10) + 1]>>

\* operator<<(int): decimal text, '-' first for a negative value
IntToText(n) == IF n < 0 THEN <<"-">> \o Digits(-n) ELSE Digits(n)

\* the index after the digits that start at 0-based index end
RECURSIVE SkipDigits(_, _)
SkipDigits(content, end) ==
    IF end < Len(content) /\ isdigit(content[end + 1])
    THEN SkipDigits(content, end + 1) ELSE end

\* what a function that may throw gives: the value it returns, or the
\* exception that leaves it
Returned(n) == [threw |-> "", value |-> n]
Thrown(what) == [threw |-> what, value |-> 0]

\* the vertical tab (0x0b), which has no escape: the character itself
VerticalTab == ""

isspace(ch) == ch \in {" ", "\t", "\n", VerticalTab, "\f", "\r"}

RECURSIVE SkipWhite(_, _)
SkipWhite(s, i) ==
    IF i < Len(s) /\ isspace(s[i + 1]) THEN SkipWhite(s, i + 1) ELSE i

\* the digits ds as a number, negated, within the range of int; 1 when the
\* number is below INT_MIN
RECURSIVE NegValue(_)
NegValue(ds) ==
    IF ds = <<>> THEN 0
    ELSE LET a == NegValue(SubSeq(ds, 1, Len(ds) - 1))
             d == DigitValue(ds[Len(ds)])
         IN  IF a = 1 \/ a < -214748364 \/ (a = -214748364 /\ d > 8)
             THEN 1 ELSE a * 10 - d

\* std::stoi: white space is skipped, then an optional sign and the longest
\* run of digits; with no digit there it throws std::invalid_argument, with
\* a number outside the range of int std::out_of_range
stoi(s) ==
    LET start  == SkipWhite(s, 0)
        signed == start < Len(s) /\ s[start + 1] \in {"-", "+"}
        neg    == signed /\ s[start + 1] = "-"
        from   == IF signed THEN start + 1 ELSE start
        to     == SkipDigits(s, from)
        m      == NegValue(SubSeq(s, from + 1, to))
    IN  IF to = from THEN Thrown("invalid_argument")
        ELSE IF m = 1 THEN Thrown("out_of_range")
        ELSE IF neg THEN Returned(m)
        ELSE IF m = -2147483647 - 1 THEN Thrown("out_of_range")
        ELSE Returned(-m)

KeyLock == <<"\"", "l", "o", "c", "k", "_", "p", "o", "s", "i", "t", "i",
             "o", "n", "\"">>
KeyUnlock == <<"\"", "u", "n", "l", "o", "c", "k", "_", "p", "o", "s", "i",
               "t", "i", "o", "n", "\"">>

\* std::string::find: the first 0-based index >= from where pat occurs, or -1
Find(content, pat, from) ==
    LET hits == {i \in from..(Len(content) - Len(pat)) :
                    SubSeq(content, i + 1, i + Len(pat)) = pat}
    IN  IF hits = {} THEN -1 ELSE CHOOSE i \in hits : \A j \in hits : i <= j

\* the text saveToStorage writes
ConfigText(lock_position, unlock_position) ==
    <<"{", "\n">>
    \o <<" ", " ">> \o KeyLock \o <<":", " ">> \o IntToText(lock_position)
    \o <<",", "\n">>
    \o <<" ", " ">> \o KeyUnlock \o <<":", " ">> \o IntToText(unlock_position)
    \o <<"\n">>
    \o <<"}", "\n">>

\* the text a saveToStorage that was cut short after the second key leaves
InterruptedText(lock_position) ==
    <<"{", "\n">>
    \o <<" ", " ">> \o KeyLock \o <<":", " ">> \o IntToText(lock_position)
    \o <<",", "\n">>
    \o <<" ", " ">> \o KeyUnlock \o <<":", " ">>

RECURSIVE SkipBlanks(_, _)
SkipBlanks(content, pos) ==
    IF pos < Len(content) /\ content[pos + 1] \in {" ", "\t"}
    THEN SkipBlanks(content, pos + 1) ELSE pos

\* the extractInt lambda of loadFromStorage (positions are 0-based as in C++)
extractInt(content, key) ==
    LET k == Find(content, key, 0)
    IN  IF k = -1 THEN Returned(0)
        ELSE LET c == Find(content, <<":">>, k)
             IN  IF c = -1 THEN Returned(0)
                 ELSE LET pos  == SkipBlanks(content, c + 1)
                          end0 == IF pos < Len(content) /\ content[pos + 1] = "-"
                                  THEN pos + 1 ELSE pos
                          end  == SkipDigits(content, end0)
                      IN  stoi(SubSeq(content, pos + 1, end))

-----------------------------------------------------------------------------
(* StepperController: the fields and the methods, as functions of the      *)
(* controller record.  A method that may call moveSteps is cut at that     *)
(* call: what it writes before it, the delta it passes, what it writes     *)
(* once moveSteps has returned, and what it writes on its way out.         *)

Constructed == [current_position |-> 0, lock_position |-> 0,
                unlock_position |-> 0, mode |-> "SETUP",
                pending_return_to_center |-> FALSE]

\* a saveToStorage that writes the two positions under each other's key
saveToStorage_swapped(c, file, opens) ==
    IF opens THEN File(ConfigText(c.unlock_position, c.lock_position))
    ELSE file

\* the file after saveToStorage; when the ofstream does not open the file
\* keeps its content
saveToStorage(c, file, opens) ==
    IF opens THEN File(ConfigText(c.lock_position, c.unlock_position))
    ELSE file

\* the controller loadFromStorage leaves: an extractInt that throws ends it
\* with the assignments made so far
loadFromStorage(c, file) ==
    IF ~file.exists
    THEN [c EXCEPT !.lock_position = 0, !.unlock_position = 0]
    ELSE LET l == extractInt(file.text, KeyLock)
         IN  IF l.threw # "" THEN c
             ELSE LET c1 == [c EXCEPT !.lock_position = l.value]
                      u  == extractInt(file.text, KeyUnlock)
                  IN  IF u.threw # "" THEN c1
                      ELSE [c1 EXCEPT !.unlock_position = u.value]

\* the exception that leaves loadFromStorage, "" when it returns
loadFromStorageThrows(file) ==
    IF ~file.exists THEN ""
    ELSE LET l == extractInt(file.text, KeyLock)
         IN  IF l.threw # "" THEN l.threw
             ELSE extractInt(file.text, KeyUnlock).threw

\* a begin() that takes any non-zero lock position for a calibration
begin_lockNonZero(c, file) ==
    LET l == loadFromStorage(c, file)
    IN  IF loadFromStorageThrows(file) # "" THEN l
        ELSE IF l.lock_position # 0 THEN [l EXCEPT !.mode = "NORMAL"] ELSE l

\* the controller begin() leaves; the exception of loadFromStorage leaves
\* begin() too, before the mode is derived
begin(c, file) ==
    LET l == loadFromStorage(c, file)
    IN  IF loadFromStorageThrows(file) # "" THEN l
        ELSE IF l.lock_position # l.unlock_position
        THEN [l EXCEPT !.mode = "NORMAL"] ELSE l

beginThrows(file) == loadFromStorageThrows(file)

getModeString(c) == IF c.mode = "SETUP" THEN "setup" ELSE "normal"

setMode(c, new_mode) == [c EXCEPT !.mode = new_mode]

setModeFromStringOk(mode_str) == mode_str \in {"setup", "normal"}

\* a setModeFromString() whose switch to setup drops a pending return
setModeFromString_cancelsReturn(c, mode_str) ==
    IF mode_str = "setup"
    THEN [c EXCEPT !.mode = "SETUP", !.pending_return_to_center = FALSE]
    ELSE IF mode_str = "normal" THEN [c EXCEPT !.mode = "NORMAL"]
    ELSE c

setModeFromString(c, mode_str) ==
    IF mode_str = "setup" THEN [c EXCEPT !.mode = "SETUP"]
    ELSE IF mode_str = "normal" THEN [c EXCEPT !.mode = "NORMAL"]
    ELSE c

\* a setCenter() that also drops a pending return
setCenter_clearsFlag(c) ==
    [c EXCEPT !.current_position = 0, !.pending_return_to_center = FALSE]

setCenter(c) == [c EXCEPT !.current_position = 0]

\* a setLockPosition() that writes the other calibrated position
setLockPosition_wrongField(c) ==
    [c EXCEPT !.unlock_position = c.current_position]

setLockPosition(c) == [c EXCEPT !.lock_position = c.current_position]

\* a setUnlockPosition() that writes the other calibrated position
setUnlockPosition_wrongField(c) ==
    [c EXCEPT !.lock_position = c.current_position]

setUnlockPosition(c) == [c EXCEPT !.unlock_position = c.current_position]

\* stepForward: the delta it passes to moveSteps, <<>> when it does not move
stepForwardDelta(c, steps) == IF steps > 0 THEN <<steps>> ELSE <<>>

\* a stepForward() that counts one step whatever it moved
stepForwardMoved_unit(c, steps) ==
    [c EXCEPT !.current_position = c.current_position + 1]

stepForwardMoved(c, steps) ==
    [c EXCEPT !.current_position = c.current_position + steps]

stepBackwardDelta(c, steps) == IF steps > 0 THEN <<-steps>> ELSE <<>>

\* a stepBackward() that moves the motor and leaves current_position alone
stepBackwardMoved_noWrite(c, steps) == c

stepBackwardMoved(c, steps) ==
    [c EXCEPT !.current_position = c.current_position - steps]

\* lock(): there is no test of mode in it
lockDelta(c) ==
    LET delta == c.lock_position - c.current_position
    IN  IF delta # 0 THEN <<delta>> ELSE <<>>

\* a lock() that takes the other calibrated position for its target
lockMoved_wrongTarget(c) == [c EXCEPT !.current_position = c.unlock_position]

lockMoved(c) == [c EXCEPT !.current_position = c.lock_position]

lockExit(c) == [c EXCEPT !.pending_return_to_center = TRUE]

\* an unlock() without the test delta != 0
unlockDelta_untested(c) == <<c.unlock_position - c.current_position>>

unlockDelta(c) ==
    LET delta == c.unlock_position - c.current_position
    IN  IF delta # 0 THEN <<delta>> ELSE <<>>

unlockMoved(c) == [c EXCEPT !.current_position = c.unlock_position]

unlockExit(c) == [c EXCEPT !.pending_return_to_center = TRUE]

hasPendingReturnToCenter(c) == c.pending_return_to_center

\* a processReturnToCenter() that clears the flag only when it has to move
returnEntry_clearsWhenMoving(c) ==
    IF c.pending_return_to_center /\ c.current_position # 0
    THEN [c EXCEPT !.pending_return_to_center = FALSE]
    ELSE c

\* a processReturnToCenter() that leaves the flag set
returnEntry_keepsFlag(c) == c

\* processReturnToCenter up to its moveSteps call: the early return, or the
\* flag cleared
returnEntry(c) ==
    IF ~c.pending_return_to_center THEN c
    ELSE [c EXCEPT !.pending_return_to_center = FALSE]

\* c0 is the controller on entry, c the controller after returnEntry
returnDelta(c0, c) ==
    IF ~c0.pending_return_to_center THEN <<>>
    ELSE LET delta == -c.current_position
         IN  IF delta # 0 THEN <<delta>> ELSE <<>>

\* a processReturnToCenter() that does not write current_position
returnMoved_noWrite(c) == c

returnMoved(c) == [c EXCEPT !.current_position = 0]

returnRet(c0) == c0.pending_return_to_center

\* what a method writes before it reaches its moveSteps call
Entry(c, op, arg) ==
    IF op = "processReturnToCenter" THEN returnEntry(c) ELSE c

\* the argument of the method's moveSteps call: <<delta>>, or <<>> when the
\* method does not call moveSteps; c0 is the controller on entry
Delta(c0, op, arg) ==
    CASE op = "stepForward"  -> stepForwardDelta(c0, arg)
      [] op = "stepBackward" -> stepBackwardDelta(c0, arg)
      [] op = "lock"   -> lockDelta(c0)
      [] op = "unlock" -> unlockDelta(c0)
      [] op = "processReturnToCenter" -> returnDelta(c0, Entry(c0, op, arg))
      [] OTHER -> <<>>

\* the assignment that follows the moveSteps call
Moved(c, op, arg) ==
    CASE op = "stepForward"  -> stepForwardMoved(c, arg)
      [] op = "stepBackward" -> stepBackwardMoved(c, arg)
      [] op = "lock"   -> lockMoved(c)
      [] op = "unlock" -> unlockMoved(c)
      [] op = "processReturnToCenter" -> returnMoved(c)
      [] OTHER -> c

\* what the method writes after the move, or instead of it
Exit(c, op, arg) ==
    CASE op = "lock" -> lockExit(c)
      [] op = "unlock" -> unlockExit(c)
      [] op = "setCenter" -> setCenter(c)
      [] op = "setLockPosition" -> setLockPosition(c)
      [] op = "setUnlockPosition" -> setUnlockPosition(c)
      [] op = "setMode" -> setMode(c, arg)
      [] op = "setModeFromString" -> setModeFromString(c, arg)
      [] OTHER -> c

\* the value the method returns: c0 is the controller when it was entered,
\* c1 the controller when it returns
Ret(c0, c1, op, arg) ==
    CASE op \in {"stepForward", "stepBackward", "setCenter", "lock", "unlock"}
            -> c1.current_position
      [] op = "setLockPosition" -> c1.lock_position
      [] op = "setUnlockPosition" -> c1.unlock_position
      [] op = "processReturnToCenter" -> returnRet(c0)
      [] op = "setModeFromString" -> setModeFromStringOk(arg)
      [] OTHER -> "void"

\* a whole method call on one thread: the controller it leaves, the deltas
\* it passed to moveSteps, and its return value
Invoke(c, op, arg) ==
    LET h == Entry(c, op, arg)
        d == Delta(c, op, arg)
        e == IF d # <<>> THEN Exit(Moved(h, op, arg), op, arg)
             ELSE Exit(h, op, arg)
    IN  [c |-> e, moves |-> d, ret |-> Ret(c, e, op, arg)]

\* the methods that end with saveToStorage()
SavingOps == {"setLockPosition", "setUnlockPosition"}

-----------------------------------------------------------------------------
(* The mock server: request bodies and the two JSON extractors             *)

\* a field of a request body: absent, or present with the text that follows
\* its colon
Absent == [present |-> FALSE, text |-> <<>>]
Field(text) == [present |-> TRUE, text |-> text]

\* texts of the "steps" field the handlers are tried on
StepsFields ==
    {Absent, Field(<<" ", "5", "0", "0", "0">>), Field(<<"0">>),
     Field(<<"-", "7">>), Field(<<"a", "b", "c">>), Field(<<"-">>),
     Field(<<"9", "9", "9", "9", "9", "9", "9", "9", "9", "9", "9">>)}

BodyLess == {"/", "/status", "/set_center", "/set_lock", "/set_unlock",
             "/lock", "/unlock"}

Request(path, direction, size, steps, mode) ==
    [path |-> path, direction |-> direction, size |-> size, steps |-> steps,
     mode |-> mode]

\* the requests clients send; direction, size and mode hold what
\* extractJsonString returns for them ("" when the key is missing)
Requests ==
    {Request(p, "", "", Absent, "") : p \in BodyLess}
    \cup {Request("/mode", "", "", Absent, m) : m \in ModeStrings}
    \cup {Request("/step", "fwd", z, Absent, "") :
            z \in {"small", "large", "huge", ""}}
    \cup {Request("/step", d, "small", Absent, "") : d \in {"bwd", "left", ""}}
    \cup {Request("/step", "fwd", "custom", n, "") : n \in StepsFields}

RECURSIVE SkipSpaces(_, _)
SkipSpaces(json, i) ==
    IF i < Len(json) /\ json[i + 1] = " " THEN SkipSpaces(json, i + 1) ELSE i

RECURSIVE SkipNumber(_, _)
SkipNumber(json, i) ==
    IF i < Len(json) /\ (isdigit(json[i + 1]) \/ json[i + 1] = "-")
    THEN SkipNumber(json, i + 1) ELSE i

\* extractJsonInt on the text that follows the key's colon
extractJsonInt(field, defaultValue) ==
    IF ~field.present THEN Returned(defaultValue)
    ELSE LET valueStart == SkipSpaces(field.text, 0)
             valueEnd   == SkipNumber(field.text, valueStart)
         IN  IF valueEnd = valueStart THEN Returned(defaultValue)
             ELSE stoi(SubSeq(field.text, valueStart + 1, valueEnd))

Min(a, b) == IF a < b THEN a ELSE b
Max(a, b) == IF a > b THEN a ELSE b

\* a clamp without its upper limit
ClampCustom_noUpper(steps) == Max(steps, MIN_CUSTOM_STEPS)

\* std::min(std::max(steps, 1), 2048)
ClampCustom(steps) == Min(Max(steps, MIN_CUSTOM_STEPS), MAX_CUSTOM_STEPS)

\* the step count the /step handler computes from size and steps
StepCount(r) ==
    IF r.size = "custom"
    THEN ClampCustom(extractJsonInt(r.steps, SMALL_STEP).value)
    ELSE IF r.size = "large" THEN LARGE_STEP ELSE SMALL_STEP

\* the exception that leaves the /step handler when std::stoi throws in
\* extractJsonInt, "" when there is none
StepThrows(r) ==
    IF r.path = "/step" /\ r.direction # "" /\ r.size = "custom"
    THEN extractJsonInt(r.steps, SMALL_STEP).threw ELSE ""

\* the response a handler sends before it takes controller_mutex, if any
EarlyError(r) ==
    CASE r.path = "/step" /\ (r.direction = "" \/ r.size = "") ->
            <<"Missing direction or size">>
      [] r.path = "/mode" /\ r.mode = "" -> <<"Missing mode">>
      [] OTHER -> <<>>

\* handlers of which /unlock does not test the mode
LockedError_unlockUnchecked(r, c) ==
    CASE r.path = "/step" /\ r.direction \notin {"fwd", "bwd"} ->
            <<"Invalid direction. Use 'fwd' or 'bwd'">>
      [] r.path = "/lock" /\ c.mode = "SETUP" ->
            <<"Cannot lock in setup mode">>
      [] r.path = "/mode" /\ ~setModeFromStringOk(r.mode) ->
            <<"Invalid mode. Use 'setup' or 'normal'">>
      [] OTHER -> <<>>

\* the response a handler sends instead of calling the controller, once it
\* holds controller_mutex
LockedError(r, c) ==
    CASE r.path = "/step" /\ r.direction \notin {"fwd", "bwd"} ->
            <<"Invalid direction. Use 'fwd' or 'bwd'">>
      [] r.path = "/lock" /\ c.mode = "SETUP" ->
            <<"Cannot lock in setup mode">>
      [] r.path = "/unlock" /\ c.mode = "SETUP" ->
            <<"Cannot unlock in setup mode">>
      [] r.path = "/mode" /\ ~setModeFromStringOk(r.mode) ->
            <<"Invalid mode. Use 'setup' or 'normal'">>
      [] OTHER -> <<>>

\* the controller method a handler calls, and its argument
HandlerOp(r) ==
    CASE r.path = "/step" ->
            IF r.direction = "fwd" THEN "stepForward" ELSE "stepBackward"
      [] r.path = "/set_center" -> "setCenter"
      [] r.path = "/set_lock" -> "setLockPosition"
      [] r.path = "/set_unlock" -> "setUnlockPosition"
      [] r.path = "/lock" -> "lock"
      [] r.path = "/unlock" -> "unlock"
      [] r.path = "/mode" -> "setModeFromString"
      [] OTHER -> "getters"

HandlerArg(r) ==
    CASE r.path = "/step" -> StepCount(r)
      [] r.path = "/mode" -> r.mode
      [] OTHER -> 0

\* a /step handler that calls the controller without the lock_guard
Locks_stepUnlocked(who) == who \notin {"/", "/step"}

\* a worker that uses the controller without the lock_guard
Locks_workerUnlocked(who) == who \notin {"/", "returnToCenterWorker"}

\* the code paths that hold a std::lock_guard on controller_mutex while they
\* use the controller: the worker and every handler but GET /
Locks(who) == who # "/"

Error(text) == [status |-> 400, error |-> text]

\* the answer to a request whose handler was left by an exception
Exception(what) == [status |-> 500, exception |-> what]

\* the 200 response of a handler; v is the value the controller returned
Reply(r, c, v) ==
    CASE r.path \in {"/step", "/set_center", "/lock", "/unlock"} ->
            [status |-> 200, position |-> v]
      [] r.path = "/set_lock" -> [status |-> 200, lock_pos |-> v]
      [] r.path = "/set_unlock" -> [status |-> 200, unlock_pos |-> v]
      [] r.path = "/mode" -> [status |-> 200, mode |-> r.mode]
      [] OTHER -> [status |-> 200, position |-> c.current_position,
                   lock_pos |-> c.lock_position,
                   unlock_pos |-> c.unlock_position,
                   mode |-> getModeString(c)]

NoRequest == Request("", "", "", Absent, "")
NoResponse == [status |-> 0]

-----------------------------------------------------------------------------
(* Spec: main(), the handler threads, returnToCenterWorker, signalHandler  *)

\* the sum of the deltas passed to moveSteps since the latest setCenter()
\* (since the start without one), and, in the server, the numbers of
\* lock()/unlock() calls and of processReturnToCenter() calls that returned
\* true
NoTally == [issued |-> 0, locks |-> 0, returns |-> 0]

\* the tally once a method has passed d to moveSteps, or has not (d = <<>>)
Issued(tl, op, d) ==
    [tl EXCEPT !.issued = IF op = "setCenter" THEN 0
                          ELSE IF d # <<>> THEN @ + d[1] ELSE @]

\* the tally once a method has returned ret
Completed(tl, op, ret) ==
    [tl EXCEPT !.locks = IF op \in {"lock", "unlock"} THEN @ + 1 ELSE @,
               !.returns = IF op = "processReturnToCenter" /\ ret
                           THEN @ + 1 ELSE @]

\* CONFIG_FILE as a previous run may have left it; the server is explored
\* with auto_lock.html found where there is no CONFIG_FILE, and with the
\* page missing (GET / serves the fallback) where there is one
ServerFiles == {NoFile, File(ConfigText(80, 0)), File(InterruptedText(80))}

Init ==
    /\ controller = Constructed
    /\ store \in ServerFiles
    /\ calls = <<>>
    /\ mainpc = "init"
    /\ html_loaded = ~store.exists
    /\ running = TRUE
    /\ controller_mutex = NoThread
    /\ wpc = "none"
    /\ pc = [t \in Handlers |-> "idle"]
    /\ req = [t \in Handlers |-> NoRequest]
    /\ res = [t \in Handlers |-> NoResponse]
    /\ motor = {}
    /\ served = 0
    /\ tally = NoTally

\* std::lock_guard on controller_mutex, for the code paths that have one
CanEnter(who) == Locks(who) => controller_mutex = NoThread
Holding(who, t) == IF Locks(who) THEN t ELSE controller_mutex
\* a lock_guard whose end does not unlock the mutex
Released_stillLocked(who) == controller_mutex

Released(who) == IF Locks(who) THEN NoThread ELSE controller_mutex

InFlight(t, delta) == [by |-> t, delta |-> delta]

\* main(): controller.begin(); an exception that leaves begin() is caught
\* nowhere and ends the process
MainBegin ==
    /\ mainpc = "init"
    /\ controller' = begin(controller, store)
    /\ mainpc' = IF beginThrows(store) # "" THEN "terminated" ELSE "begun"
    /\ UNCHANGED <<store, calls, html_loaded, running, controller_mutex, wpc,
                   pc, req, res, motor, served, tally>>

\* main(): std::thread returnThread(returnToCenterWorker); the worker runs
\* from here on, while main registers the routes
MainStart ==
    /\ mainpc = "begun"
    /\ mainpc' = "started"
    /\ wpc' = "loop"
    /\ UNCHANGED <<controller, store, calls, html_loaded, running,
                   controller_mutex, pc, req, res, motor, served, tally>>

\* main(): the routes are registered, server.listen()
MainListen ==
    /\ mainpc = "started"
    /\ mainpc' = "listen"
    /\ UNCHANGED <<controller, store, calls, html_loaded, running,
                   controller_mutex, wpc, pc, req, res, motor, served, tally>>

\* signalHandler, registered at the start of main(): running = false;
\* server.stop(), which ends listen() only when the server listens
SignalHandler ==
    /\ mainpc \in {"init", "begun", "started", "listen"}
    /\ running' = FALSE
    /\ mainpc' = IF mainpc = "listen" THEN "stopping" ELSE mainpc
    /\ UNCHANGED <<controller, store, calls, html_loaded, controller_mutex,
                   wpc, pc, req, res, motor, served, tally>>

\* main(): listen() returns once the handlers have finished; running = false
MainStopped ==
    /\ mainpc = "stopping"
    /\ \A t \in Handlers : pc[t] = "idle"
    /\ running' = FALSE
    /\ mainpc' = "join"
    /\ UNCHANGED <<controller, store, calls, html_loaded, controller_mutex,
                   wpc, pc, req, res, motor, served, tally>>

\* main(): returnThread.join(); return 0
MainJoin ==
    /\ mainpc = "join"
    /\ wpc = "done"
    /\ mainpc' = "exit"
    /\ UNCHANGED <<controller, store, calls, html_loaded, running,
                   controller_mutex, wpc, pc, req, res, motor, served, tally>>

\* a worker loop that never tests running
WorkerLoop_ignoresRunning ==
    /\ wpc = "loop"
    /\ wpc' = "sleep"
    /\ UNCHANGED <<controller, store, calls, mainpc, html_loaded, running,
                   controller_mutex, pc, req, res, motor, served, tally>>

\* while (running): the loop test of returnToCenterWorker
WorkerLoop ==
    /\ wpc = "loop"
    /\ wpc' = IF running THEN "sleep" ELSE "done"
    /\ UNCHANGED <<controller, store, calls, mainpc, html_loaded, running,
                   controller_mutex, pc, req, res, motor, served, tally>>

\* the worker wakes, takes controller_mutex and, with a return pending,
\* runs processReturnToCenter() up to its moveSteps call
WorkerTick ==
    /\ wpc = "sleep"
    /\ CanEnter("returnToCenterWorker")
    /\ IF hasPendingReturnToCenter(controller)
       THEN LET d == Delta(controller, "processReturnToCenter", 0)
                h == Entry(controller, "processReturnToCenter", 0)
            IN  IF d # <<>>
                THEN /\ controller' = h
                     /\ motor' = motor \cup {InFlight(Worker, d[1])}
                     /\ controller_mutex' = Holding("returnToCenterWorker", Worker)
                     /\ wpc' = "moving"
                     /\ tally' = Issued(tally, "processReturnToCenter", d)
                ELSE /\ controller' = Exit(h, "processReturnToCenter", 0)
                     /\ wpc' = "loop"
                     /\ tally' = Completed(tally, "processReturnToCenter",
                                           returnRet(controller))
                     /\ UNCHANGED <<motor, controller_mutex>>
       ELSE /\ wpc' = "loop"
            /\ UNCHANGED <<controller, motor, controller_mutex, tally>>
    /\ UNCHANGED <<store, calls, mainpc, html_loaded, running, pc, req, res,
                   served>>

\* moveSteps returns in the worker: current_position = 0, the lock_guard ends
WorkerFinish ==
    /\ wpc = "moving"
    /\ \E m \in motor :
         /\ m.by = Worker
         /\ motor' = motor \ {m}
    /\ controller' = Exit(Moved(controller, "processReturnToCenter", 0),
                          "processReturnToCenter", 0)
    /\ controller_mutex' = Released("returnToCenterWorker")
    /\ wpc' = "loop"
    /\ tally' = Completed(tally, "processReturnToCenter", TRUE)
    /\ UNCHANGED <<store, calls, mainpc, html_loaded, running, pc, req, res,
                   served>>

\* a request of the set rs reaches the pool while the server listens: the
\* first idle handler thread takes it
Accept(t, rs) ==
    /\ mainpc = "listen"
    /\ pc[t] = "idle"
    /\ \A u \in Handlers : u < t => pc[u] # "idle"
    /\ served < MaxRequests
    /\ \E r \in rs : req' = [req EXCEPT ![t] = r]
    /\ res' = [res EXCEPT ![t] = NoResponse]
    /\ pc' = [pc EXCEPT ![t] = "received"]
    /\ served' = served + 1
    /\ UNCHANGED <<controller, store, calls, mainpc, html_loaded, running,
                   controller_mutex, wpc, motor, tally>>

Receive(t) == Accept(t, Requests)

\* a handler answers without using the controller: a missing field, the
\* exception of std::stoi, or GET / with the page loaded
AnswerEarly(t) ==
    /\ pc[t] = "received"
    /\ \/ /\ EarlyError(req[t]) # <<>>
          /\ res' = [res EXCEPT ![t] = Error(EarlyError(req[t])[1])]
       \/ /\ StepThrows(req[t]) # ""
          /\ res' = [res EXCEPT ![t] = Exception(StepThrows(req[t]))]
       \/ /\ req[t].path = "/"
          /\ html_loaded
          /\ res' = [res EXCEPT ![t] = [status |-> 200]]
    /\ pc' = [pc EXCEPT ![t] = "idle"]
    /\ req' = [req EXCEPT ![t] = NoRequest]
    /\ UNCHANGED <<controller, store, calls, mainpc, html_loaded, running,
                   controller_mutex, wpc, motor, served, tally>>

\* the getters the fallback page calls, in the order it calls them
Getter(c, n) ==
    CASE n = 1 -> c.current_position
      [] n = 2 -> c.lock_position
      [] n = 3 -> c.unlock_position
      [] n = 4 -> getModeString(c)

\* the fallback page so far: the values the getters gave
Page(read) == [status |-> 0, read |-> read]

\* the fallback page, complete
FallbackReply(read) ==
    [status |-> 200, position |-> read[1], lock_pos |-> read[2],
     unlock_pos |-> read[3], mode |-> read[4]]

\* GET / without the page: the fallback calls getCurrentPosition()
RootFallback(t) ==
    /\ pc[t] = "received"
    /\ req[t].path = "/"
    /\ ~html_loaded
    /\ CanEnter("/")
    /\ controller_mutex' = Holding("/", t)
    /\ pc' = [pc EXCEPT ![t] = "reading"]
    /\ res' = [res EXCEPT ![t] = Page(<<Getter(controller, 1)>>)]
    /\ UNCHANGED <<controller, store, calls, mainpc, html_loaded, running,
                   wpc, req, motor, served, tally>>

\* the fallback calls getLockPosition(), then getUnlockPosition()
RootRead(t) ==
    /\ pc[t] = "reading"
    /\ Len(res[t].read) < 3
    /\ res' = [res EXCEPT ![t] =
                  Page(Append(@.read, Getter(controller, Len(@.read) + 1)))]
    /\ UNCHANGED <<controller, store, calls, mainpc, html_loaded, running,
                   controller_mutex, wpc, pc, req, motor, served, tally>>

\* the fallback calls getModeString() and answers
RootFallbackDone(t) ==
    /\ pc[t] = "reading"
    /\ Len(res[t].read) = 3
    /\ res' = [res EXCEPT ![t] =
                  FallbackReply(Append(@.read, Getter(controller, 4)))]
    /\ controller_mutex' = Released("/")
    /\ pc' = [pc EXCEPT ![t] = "idle"]
    /\ req' = [req EXCEPT ![t] = NoRequest]
    /\ UNCHANGED <<controller, store, calls, mainpc, html_loaded, running,
                   wpc, motor, served, tally>>

\* a handler takes controller_mutex and runs up to the moveSteps call of the
\* controller method, or to its end when nothing moves
Enter(t) ==
    LET r == req[t]
        op == HandlerOp(r)
        arg == HandlerArg(r)
    IN
    /\ pc[t] = "received"
    /\ r.path # "/"
    /\ EarlyError(r) = <<>>
    /\ StepThrows(r) = ""
    /\ CanEnter(r.path)
    /\ IF LockedError(r, controller) # <<>>
       THEN /\ res' = [res EXCEPT ![t] = Error(LockedError(r, controller)[1])]
            /\ pc' = [pc EXCEPT ![t] = "idle"]
            /\ req' = [req EXCEPT ![t] = NoRequest]
            /\ UNCHANGED <<controller, store, motor, controller_mutex, tally>>
       ELSE LET d == Delta(controller, op, arg)
                h == Entry(controller, op, arg)
                e == Exit(h, op, arg)
            IN  IF d # <<>>
                THEN /\ controller' = h
                     /\ motor' = motor \cup {InFlight(t, d[1])}
                     /\ controller_mutex' = Holding(r.path, t)
                     /\ pc' = [pc EXCEPT ![t] = "moving"]
                     /\ tally' = Issued(tally, op, d)
                     /\ UNCHANGED <<store, res, req>>
                ELSE /\ controller' = e
                     /\ IF op \in SavingOps
                        THEN \E opens \in BOOLEAN :
                                store' = saveToStorage(e, store, opens)
                        ELSE store' = store
                     /\ res' = [res EXCEPT
                                  ![t] = Reply(r, e, Ret(controller, e, op, arg))]
                     /\ pc' = [pc EXCEPT ![t] = "idle"]
                     /\ req' = [req EXCEPT ![t] = NoRequest]
                     /\ tally' = Completed(Issued(tally, op, d), op,
                                           Ret(controller, e, op, arg))
                     /\ UNCHANGED <<motor, controller_mutex>>
    /\ UNCHANGED <<calls, mainpc, html_loaded, running, wpc, served>>

\* the handlers whose lock_guard ends before they set the response: /step
\* keeps newPos and answers after its block, with nothing else of the
\* request
AnswersUnlocked(path) == path = "/step"

\* what a /step handler holds between its block and its answer
Holds(newPos) == [status |-> 0, newPos |-> newPos]

\* moveSteps returns in a handler: the method finishes and the lock_guard
\* ends; the handler has answered by then, or, for /step, has yet to
Finish(t) ==
    LET r == req[t]
        op == HandlerOp(r)
        arg == HandlerArg(r)
        e == Exit(Moved(controller, op, arg), op, arg)
    IN
    /\ pc[t] = "moving"
    /\ \E m \in motor :
         /\ m.by = t
         /\ motor' = motor \ {m}
    /\ controller' = e
    /\ controller_mutex' = Released(r.path)
    /\ IF AnswersUnlocked(r.path)
       THEN /\ res' = [res EXCEPT ![t] = Holds(Ret(controller, e, op, arg))]
            /\ pc' = [pc EXCEPT ![t] = "answering"]
       ELSE /\ res' = [res EXCEPT
                         ![t] = Reply(r, e, Ret(controller, e, op, arg))]
            /\ pc' = [pc EXCEPT ![t] = "idle"]
    /\ req' = [req EXCEPT ![t] = NoRequest]
    /\ tally' = Completed(tally, op, Ret(controller, e, op, arg))
    /\ UNCHANGED <<store, calls, mainpc, html_loaded, running, wpc, served>>

\* a /step handler, out of its lock_guard block, sets the response
Answer(t) ==
    /\ pc[t] = "answering"
    /\ res' = [res EXCEPT ![t] = [status |-> 200, position |-> @.newPos]]
    /\ pc' = [pc EXCEPT ![t] = "idle"]
    /\ UNCHANGED <<controller, store, calls, mainpc, html_loaded, running,
                   controller_mutex, wpc, req, motor, served, tally>>

Next ==
    \/ MainBegin
    \/ MainStart
    \/ MainListen
    \/ SignalHandler
    \/ MainStopped
    \/ MainJoin
    \/ WorkerLoop
    \/ WorkerTick
    \/ WorkerFinish
    \/ \E t \in Handlers : Receive(t)
    \/ \E t \in Handlers : AnswerEarly(t)
    \/ \E t \in Handlers : RootFallback(t)
    \/ \E t \in Handlers : RootRead(t)
    \/ \E t \in Handlers : RootFallbackDone(t)
    \/ \E t \in Handlers : Enter(t)
    \/ \E t \in Handlers : Finish(t)
    \/ \E t \in Handlers : Answer(t)

Spec == Init /\ [][Next]_vars

\* the requests FairSpec is explored with
LiveRequests ==
    {r \in Requests :
        \/ r.path \in BodyLess \ {"/set_lock", "/set_unlock"}
        \/ r.path = "/mode"
        \/ r.path = "/step" /\ r.size = "large" /\ r.direction = "fwd"}

ReceiveLive(t) == Accept(t, LiveRequests)

LiveNext ==
    \/ MainBegin
    \/ MainStart
    \/ MainListen
    \/ SignalHandler
    \/ MainStopped
    \/ MainJoin
    \/ WorkerLoop
    \/ WorkerTick
    \/ WorkerFinish
    \/ \E t \in Handlers : ReceiveLive(t)
    \/ \E t \in Handlers : AnswerEarly(t)
    \/ \E t \in Handlers : RootFallback(t)
    \/ \E t \in Handlers : RootRead(t)
    \/ \E t \in Handlers : RootFallbackDone(t)
    \/ \E t \in Handlers : Enter(t)
    \/ \E t \in Handlers : Finish(t)
    \/ \E t \in Handlers : Answer(t)

\* the worker is fairly scheduled: it gets controller_mutex when the mutex
\* is free again and again, its loop goes on, and every moveSteps returns
FairSpec ==
    /\ Init
    /\ [][LiveNext]_vars
    /\ WF_vars(WorkerLoop)
    /\ SF_vars(WorkerTick)
    /\ WF_vars(WorkerFinish)
    /\ \A t \in Handlers : WF_vars(Finish(t))

\* every thread is fairly scheduled and controller_mutex is granted fairly: a
\* handler that finds the mutex free again and again gets it
FairServerSpec ==
    /\ FairSpec
    /\ \A t \in Handlers : /\ SF_vars(Enter(t))
                            /\ WF_vars(AnswerEarly(t))
                            /\ WF_vars(RootFallback(t))
                            /\ WF_vars(RootRead(t))
                            /\ WF_vars(Answer(t))
                            /\ WF_vars(RootFallbackDone(t))

-----------------------------------------------------------------------------
(* CtlSpec: one StepperController object, its methods called one at a time *)

Call(op, arg, c0, r) ==
    [op |-> op, arg |-> arg, pos0 |-> c0.current_position,
     moves |-> r.moves, ret |-> r.ret]

\* CtlSpec explores the calibration with a writable CONFIG_FILE; Spec also
\* takes the ofstream that fails to open
CtlFileOpens == {TRUE}

InitFiles ==
    {NoFile, File(InterruptedText(120))}
    \cup {File(ConfigText(p[1], p[2])) : p \in StoredPairs}

\* of the call before the most recent one, what it moved and returned is
\* dropped
Earlier(call) == [call EXCEPT !.moves = <<>>, !.ret = "void"]

\* the most recent call, and the one before it
last == calls[Len(calls)]
prev == calls[1]
Called(op) == calls # <<>> /\ last.op = op
CalledInTurn(op1, op2) ==
    Len(calls) = 2 /\ prev.op = op1 /\ last.op = op2

CtlInit ==
    /\ controller = Constructed
    /\ store \in InitFiles
    /\ calls = <<>>
    /\ mainpc = "init"
    /\ html_loaded = TRUE
    /\ running = TRUE
    /\ controller_mutex = NoThread
    /\ wpc = "none"
    /\ pc = [t \in Handlers |-> "idle"]
    /\ req = [t \in Handlers |-> NoRequest]
    /\ res = [t \in Handlers |-> NoResponse]
    /\ motor = {}
    /\ served = 0
    /\ tally = NoTally

\* begin() has thrown: the process has ended
Ended == calls # <<>> /\ last.op \in {"begin", "restart"} /\ last.ret # "void"

\* what a call of begin() gives its caller
beginRet(file) == IF beginThrows(file) # "" THEN beginThrows(file) ELSE "void"

CtlBegin ==
    /\ calls = <<>>
    /\ controller' = begin(controller, store)
    /\ calls' = <<[op |-> "begin", arg |-> 0,
                   pos0 |-> controller.current_position,
                   moves |-> <<>>, ret |-> beginRet(store)]>>
    /\ UNCHANGED <<store, serverVars, tally>>

\* a method call with its argument, on a controller that begin() has set up
CtlCall(op, arg) ==
    /\ calls # <<>>
    /\ ~Ended
    /\ LET r == Invoke(controller, op, arg)
       IN  /\ Abs(r.c.current_position) > MaxPos
                => r.c.current_position = controller.current_position
                   \/ op \notin {"stepForward", "stepBackward"}
           /\ controller' = r.c
           /\ calls' = <<Earlier(calls[Len(calls)]),
                          Call(op, arg, controller, r)>>
           /\ IF op \in SavingOps
              THEN \E opens \in CtlFileOpens :
                       store' = saveToStorage(r.c, store, opens)
              ELSE store' = store
           /\ tally' = Issued(tally, op, r.moves)
    /\ UNCHANGED serverVars

CtlStepForward == \E a \in StepArgs : CtlCall("stepForward", a)
CtlStepBackward == \E a \in StepArgs : CtlCall("stepBackward", a)
CtlSetCenter == CtlCall("setCenter", 0)
CtlSetLockPosition == CtlCall("setLockPosition", 0)
CtlSetUnlockPosition == CtlCall("setUnlockPosition", 0)
CtlLock == CtlCall("lock", 0)
CtlUnlock == CtlCall("unlock", 0)
CtlProcessReturnToCenter == CtlCall("processReturnToCenter", 0)
CtlSetMode == \E m \in {"SETUP", "NORMAL"} : CtlCall("setMode", m)
CtlSetModeFromString == \E s \in ModeStrings : CtlCall("setModeFromString", s)

CtlNext ==
    \/ CtlBegin
    \/ CtlStepForward
    \/ CtlStepBackward
    \/ CtlSetCenter
    \/ CtlSetLockPosition
    \/ CtlSetUnlockPosition
    \/ CtlLock
    \/ CtlUnlock
    \/ CtlProcessReturnToCenter
    \/ CtlSetMode
    \/ CtlSetModeFromString

CtlSpec == CtlInit /\ [][CtlNext]_vars

\* the process ends and is started again: a new controller object runs
\* begin() on the CONFIG_FILE the previous one left
CtlRestart ==
    /\ calls # <<>>
    /\ controller' = begin(Constructed, store)
    /\ calls' = <<Earlier(calls[Len(calls)]),
                   [op |-> "restart", arg |-> 0,
                    pos0 |-> controller.current_position,
                    moves |-> <<>>, ret |-> beginRet(store)]>>
    /\ tally' = NoTally
    /\ UNCHANGED <<store, serverVars>>

RestartNext ==
    \/ CtlNext
    \/ CtlRestart

\* the first start of all: no CONFIG_FILE yet
RestartInit == CtlInit /\ store = NoFile

\* the method calls of CtlSpec with restarts of the process between them;
\* every CONFIG_FILE a restart reads is one that saveToStorage wrote
RestartSpec == RestartInit /\ [][RestartNext]_vars

-----------------------------------------------------------------------------
(* Properties of the StepperController class, checked under CtlSpec        *)

position == controller.current_position
pending == controller.pending_return_to_center

\* C5: lock() and unlock(), called while mode == SETUP, are rejected: they
\* pass nothing to moveSteps and leave current_position as it was.
C5_LockRejectedInSetup ==
    ((Called("lock") \/ Called("unlock")) /\ controller.mode = "SETUP")
        => (last.moves = <<>> /\ position = last.pos0)

\* C6: stepForward(a) directly followed by stepBackward(a) leaves
\* current_position where it was before the pair, and a step call with
\* a <= 0 passes nothing to moveSteps and leaves current_position alone.
C6_StepInverse ==
    /\ (CalledInTurn("stepForward", "stepBackward") /\ prev.arg = last.arg)
          => position = prev.pos0
    /\ ((Called("stepForward") \/ Called("stepBackward")) /\ last.arg <= 0)
          => (last.moves = <<>> /\ position = last.pos0)

C6_Witness ==
    /\ CalledInTurn("stepForward", "stepBackward")
    /\ prev.arg = 2
    /\ last.arg = 2
    /\ last.moves = <<-2>>
    /\ position = prev.pos0

\* C7: setLockPosition() directly followed by lock() passes nothing to
\* moveSteps, leaves current_position alone and sets the pending flag; the
\* same for setUnlockPosition() followed by unlock().
C7_SetThenActuate ==
    (CalledInTurn("setLockPosition", "lock")
        \/ CalledInTurn("setUnlockPosition", "unlock"))
        => (last.moves = <<>> /\ position = last.pos0 /\ pending)

C7_Witness ==
    /\ CalledInTurn("setLockPosition", "lock")
    /\ position # 0
    /\ pending

\* C8: processReturnToCenter() returns true exactly when the flag was set
\* and leaves it clear; called directly after itself it returns false,
\* passes nothing to moveSteps and changes nothing.
C8_ReturnOnce ==
    [][(calls' # calls /\ calls'[Len(calls')].op = "processReturnToCenter")
         => /\ calls'[Len(calls')].ret = pending
            /\ ~pending'
            /\ Called("processReturnToCenter")
                 => /\ calls'[Len(calls')].ret = FALSE
                    /\ calls'[Len(calls')].moves = <<>>
                    /\ controller' = controller
                    /\ store' = store]_vars

C8_Witness ==
    /\ CalledInTurn("processReturnToCenter", "processReturnToCenter")
    /\ prev.pos0 # 0
    /\ position = 0
    /\ last.ret = FALSE

\* C9: right after begin(), mode is NORMAL exactly when the loaded lock and
\* unlock positions differ; without a file both are 0 and mode is SETUP, and
\* with (120, 0) in the file mode is NORMAL.
C9_BeginMode ==
    (Called("begin") /\ ~Ended) =>
        /\ controller.mode = "NORMAL"
             <=> controller.lock_position # controller.unlock_position
        /\ ~store.exists
             => /\ controller.lock_position = 0
                /\ controller.unlock_position = 0
                /\ controller.mode = "SETUP"
        /\ store = File(ConfigText(120, 0))
             => /\ controller.lock_position = 120
                /\ controller.unlock_position = 0
                /\ controller.mode = "NORMAL"

C9_Witness ==
    /\ Called("begin")
    /\ store = File(ConfigText(120, 0))
    /\ controller.lock_position = 120
    /\ controller.mode = "NORMAL"

-----------------------------------------------------------------------------
(* Properties of the server, checked under Spec and FairSpec               *)

InController(t) == pc[t] \in {"moving", "reading"}
Actuating(t) == pc[t] = "moving" /\ req[t].path \in {"/lock", "/unlock"}
HasPosition(t, p) == "position" \in DOMAIN res[t] /\ res[t].position = p

\* C1: a handler's lock()/unlock() and the worker's processReturnToCenter()
\* never overlap: while the worker's return move is in flight the worker
\* holds controller_mutex, no handler is inside a controller method, and
\* the delta the worker passed is the negation of current_position.
C1_NoInterleaving ==
    wpc = "moving" =>
        /\ controller_mutex = Worker
        /\ \A t \in Handlers : pc[t] # "moving"
        /\ \A m \in motor : m.by = Worker /\ m.delta = -position

C1_Witness ==
    /\ wpc = "moving"
    /\ InFlight(Worker, -80) \in motor
    /\ \E t \in Handlers : pc[t] = "received" /\ req[t].path = "/unlock"

\* C2: a handler thread or the worker uses the controller's fields only
\* while it holds controller_mutex, and never while another thread holds it.
C2_AccessUnderMutex ==
    /\ \A t \in Handlers : InController(t) => controller_mutex = t
    /\ wpc = "moving" => controller_mutex = Worker

\* C3: while the process is not told to shut down, a pending return is
\* eventually executed by the worker; the tick that starts it passes
\* -current_position to moveSteps (-80 after a lock() to 80), and when the
\* worker has finished the flag is clear and current_position is 0.
C3_ReturnExecuted ==
    /\ pending ~> ((wpc = "loop" /\ ~pending /\ position = 0) \/ ~running)
    /\ [][(wpc = "sleep" /\ wpc' = "moving")
            => (pending /\ motor' = motor \cup {InFlight(Worker, -position)})]_vars
    /\ [][(wpc \in {"sleep", "moving"} /\ wpc' = "loop"
             /\ (pending \/ wpc = "moving"))
            => (~pending' /\ position' = 0)]_vars

C3_Witness ==
    /\ wpc = "loop"
    /\ ~pending
    /\ position = 0
    /\ controller.lock_position = 80
    /\ \E t \in Handlers : req[t] = NoRequest /\ HasPosition(t, 80)

\* C4: a /lock or /unlock request handled while mode is SETUP gets an error
\* response and changes nothing, and no lock()/unlock() a handler has
\* started is under way while mode is SETUP, whatever /mode requests run
\* beside it.
C4_RejectedInSetup ==
    /\ [](\A t \in Handlers : Actuating(t) => controller.mode = "NORMAL")
    /\ [][\A t \in Handlers :
            (pc[t] = "received" /\ pc'[t] # "received"
               /\ req[t].path \in {"/lock", "/unlock"}
               /\ controller.mode = "SETUP")
            => /\ res'[t].status = 400
               /\ controller' = controller
               /\ store' = store
               /\ motor' = motor]_vars

C4_Witness ==
    /\ controller.mode = "SETUP"
    /\ controller.lock_position = 80
    /\ position = 0
    /\ \E t \in Handlers : res[t] = Error("Cannot lock in setup mode")

\* the step count a custom /step request asks for, kept within [1, 2048]
Requested(field) == extractJsonInt(field, SMALL_STEP).value
Clamped(n) == IF n > 2048 THEN 2048 ELSE IF n < 1 THEN 1 ELSE n

\* C10: a /step request passes at most 2048 steps to moveSteps; with size
\* custom it passes the requested count clamped to [1, 2048] (2048 for 5000,
\* 1 for 0 and for a negative count); and current_position changes by the
\* delta passed.
C10_CustomStepClamped ==
    /\ [](\A t \in Handlers : (pc[t] = "moving" /\ req[t].path = "/step") =>
            \E m \in motor :
                /\ m.by = t
                /\ Abs(m.delta) <= 2048
                /\ req[t].size = "custom"
                     => Abs(m.delta) = Clamped(Requested(req[t].steps))
                /\ req[t].steps = Field(<<" ", "5", "0", "0", "0">>)
                     => Abs(m.delta) = 2048
                /\ req[t].steps \in {Field(<<"0">>), Field(<<"-", "7">>)}
                     => Abs(m.delta) = 1)
    /\ [][\A t \in Handlers :
            (pc[t] = "moving" /\ pc'[t] # "moving" /\ req[t].path = "/step")
            => \E m \in motor :
                  /\ m.by = t
                  /\ position' = position + m.delta]_vars

C10_Witness ==
    \E t \in Handlers :
        /\ pc[t] = "idle"
        /\ HasPosition(t, 2048)
        /\ position = 2048

-----------------------------------------------------------------------------
(* Frame and error properties of the StepperController class (CtlSpec)     *)

\* C11 as stated: a method call that changes current_position has passed a
\* delta to moveSteps; no method, setCenter included, writes it otherwise.
C11_PositionOnlyByMove ==
    (calls # <<>> /\ position # last.pos0) => last.moves # <<>>

\* C11: a method call that changes current_position either passed a delta to
\* moveSteps, and current_position changed by that delta, or it is
\* setCenter(), which writes 0 and passes nothing to moveSteps.
C11_PositionByMoveOrSetCenter ==
    /\ (calls # <<>> /\ position # last.pos0)
          => \/ last.moves # <<>> /\ position = last.pos0 + last.moves[1]
             \/ Called("setCenter") /\ position = 0
    /\ Called("setCenter") => last.moves = <<>>

C11_Witness ==
    /\ CalledInTurn("lock", "setCenter")
    /\ last.pos0 = 120
    /\ position = 0
    /\ last.moves = <<>>

\* the methods that have nothing to do with the pending flag
FlagBystanders == {"begin", "stepForward", "stepBackward", "setCenter",
                   "setLockPosition", "setUnlockPosition", "setMode",
                   "setModeFromString"}

\* C12: pending_return_to_center goes from false to true only in a lock() or
\* unlock() call, which always leaves it true, and from true to false only
\* in a processReturnToCenter() call; the step methods, setCenter and the
\* setters leave it as it was.
C12_PendingFrame ==
    [][calls' # calls =>
         LET op == calls'[Len(calls')].op
         IN  /\ (~pending /\ pending') => op \in {"lock", "unlock"}
             /\ (pending /\ ~pending') => op = "processReturnToCenter"
             /\ op \in {"lock", "unlock"} => pending'
             /\ op \in FlagBystanders => pending' = pending]_vars

C12_Witness ==
    /\ CalledInTurn("unlock", "stepForward")
    /\ last.moves = <<1>>
    /\ pending

-----------------------------------------------------------------------------
(* Error handling and shutdown of the server (Spec)                        *)

\* the handler thread t answers a request of one of the paths in this step
Answers(t, paths) ==
    pc[t] \in {"received", "moving"} /\ pc'[t] = "idle" /\ req[t].path \in paths

\* C13: when /set_lock or /set_unlock is answered and CONFIG_FILE does not
\* hold the new pair (saveToStorage did not get the file open), the caller
\* gets an error, the file is as it was, and lock_position (unlock_position)
\* is current_position all the same.
C13_StorageErrorSignalled ==
    [][\A t \in Handlers :
         (Answers(t, {"/set_lock", "/set_unlock"})
            /\ store' # saveToStorage(controller', store, TRUE))
         => /\ res'[t].status # 200
            /\ store' = store
            /\ req[t].path = "/set_lock"
                 => controller'.lock_position = position
            /\ req[t].path = "/set_unlock"
                 => controller'.unlock_position = position]_vars

\* C15 as stated: once running is false the worker starts no return move
\* and the pending flag is not cleared.
C15_AbandonedAtShutdown ==
    [][~running => /\ ~(wpc # "moving" /\ wpc' = "moving")
                   /\ pending => pending']_vars

\* C15: once running is false the worker starts no further sleep, so it
\* runs at most the tick it was already waiting for; once it has left its
\* loop it stays out, has no move in flight and the pending flag is never
\* cleared; and when main has also passed listen() the controller stays as
\* it is, a pending return included.
C15_AbandonedOnceStopped ==
    /\ [][(~running /\ wpc = "loop") => wpc' \in {"loop", "done"}]_vars
    /\ [][wpc = "done" => /\ wpc' = "done"
                          /\ pending => pending'
                          /\ \A m \in motor' : m.by # Worker]_vars
    /\ [][(wpc = "done" /\ mainpc \in {"join", "exit"})
            => controller' = controller]_vars

C15_Witness ==
    /\ mainpc = "exit"
    /\ wpc = "done"
    /\ pending
    /\ position = 80
    /\ controller.lock_position = 80

\* the "steps" text holds a number where extractJsonInt looks for one
Parses(field) ==
    field.present
    /\ SkipNumber(field.text, SkipSpaces(field.text, 0))
          # SkipSpaces(field.text, 0)

\* a request with a required field missing, a steps text that is no number
\* or a count outside [1, 2048], or an unknown mode, direction or size
Invalid(r) ==
    \/ /\ r.path = "/step"
       /\ \/ r.direction \notin {"fwd", "bwd"}
          \/ r.size \notin {"small", "large", "custom"}
          \/ /\ r.size = "custom"
             /\ r.steps.present
             /\ Parses(r.steps) => Requested(r.steps) \notin 1..2048
    \/ r.path = "/mode" /\ r.mode \notin {"setup", "normal"}

\* C16: a handler that takes up an invalid request answers it with an error
\* and leaves the controller, the file and the motor as they were.
C16_InvalidRejected ==
    [][\A t \in Handlers :
         (pc[t] = "received" /\ pc'[t] # "received" /\ Invalid(req[t]))
         => /\ res'[t].status \in {400, 500}
            /\ controller' = controller
            /\ store' = store
            /\ motor' = motor]_vars

\* C17: no moveSteps call in flight has delta 0, a /step request with its
\* fields present and a count std::stoi returns resolves to a step count of
\* at least 1, and the move a /step handler has in flight is of that count.
C17_NoZeroMove ==
    /\ \A m \in motor : m.delta # 0
    /\ \A t \in Handlers :
         (req[t].path = "/step" /\ EarlyError(req[t]) = <<>>
            /\ StepThrows(req[t]) = "")
            => StepCount(req[t]) >= 1
    /\ \A t \in Handlers :
         (pc[t] = "moving" /\ req[t].path = "/step")
            => \E m \in motor : m.by = t /\ Abs(m.delta) = StepCount(req[t])

\* /unlock at the unlock position has set the flag without a move, and a
\* custom /step of 0 steps moves 1
C17_Witness ==
    /\ pending
    /\ position = 0
    /\ controller.unlock_position = 0
    /\ controller.lock_position = 80
    /\ \E t \in Handlers :
         /\ pc[t] = "moving"
         /\ req[t].steps = Field(<<"0">>)
         /\ motor = {InFlight(t, 1)}

\* C18: at most one moveSteps call is in flight, and the thread that made
\* it holds controller_mutex; while it is in flight the only step that
\* changes the controller, the file or the motor is the return of that call,
\* which ends the operation and frees the mutex: requests that arrived in
\* the meantime have changed nothing and moved nothing.
C18_OneMoveInFlight ==
    /\ [](/\ Cardinality(motor) <= 1
          /\ \A m \in motor : controller_mutex = m.by)
    /\ [][motor # {} =>
            \/ /\ controller' = controller
               /\ store' = store
               /\ motor' = motor
               /\ controller_mutex' = controller_mutex
            \/ /\ motor' = {}
               /\ controller_mutex' = NoThread
               /\ \A t \in Handlers : pc[t] = "received" => pc'[t] = "received"]_vars

C18_Witness ==
    /\ motor = {InFlight(1, 80)}
    /\ pc[2] = "received"
    /\ req[2].path = "/step"
    /\ wpc = "sleep"
    /\ position = 0

-----------------------------------------------------------------------------
(* Progress of the server (FairServerSpec)                                 *)

\* C19: a thread owns controller_mutex only while its moveSteps call is in
\* flight: a handler that has answered, on an error path or not, and a
\* worker whose tick is over have released it; and every request a handler
\* has received is eventually answered and every tick the worker waits for
\* eventually ends.
C19_MutexReleasedAndProgress ==
    /\ [](\A t \in Handlers : controller_mutex = t => pc[t] = "moving")
    /\ [](controller_mutex = Worker => wpc = "moving")
    /\ \A t \in Handlers : (pc[t] = "received") ~> (pc[t] = "idle")
    /\ (wpc = "sleep") ~> (wpc = "loop")

C19_Witness ==
    /\ controller_mutex = NoThread
    /\ res[1] = Error("Cannot unlock in setup mode")
    /\ pc[1] = "idle"
    /\ pc[2] = "idle"
    /\ HasPosition(2, 50)
    /\ wpc = "loop"

-----------------------------------------------------------------------------
(* The calibrated positions (CtlSpec)                                      *)

lockPosition == controller.lock_position
unlockPosition == controller.unlock_position

\* C20: setLockPosition() makes lock_position the current_position of that
\* moment and leaves unlock_position alone, setUnlockPosition() likewise
\* with the two exchanged, and no other method called after begin() changes
\* either; so after setLockPosition() and one more call of another method
\* lock_position is still the current_position setLockPosition() found.
C20_CalibrationFrame ==
    /\ [][(calls' # calls /\ calls # <<>>) =>
            LET op == calls'[Len(calls')].op
            IN  /\ lockPosition' =
                     IF op = "setLockPosition" THEN position ELSE lockPosition
                /\ unlockPosition' =
                     IF op = "setUnlockPosition" THEN position
                     ELSE unlockPosition]_vars
    /\ []((Len(calls) = 2 /\ prev.op = "setLockPosition"
             /\ last.op # "setLockPosition") => lockPosition = prev.pos0)
    /\ []((Len(calls) = 2 /\ prev.op = "setUnlockPosition"
             /\ last.op # "setUnlockPosition") => unlockPosition = prev.pos0)

C20_Witness ==
    /\ CalledInTurn("setLockPosition", "stepBackward")
    /\ prev.pos0 = 1
    /\ position = -1
    /\ lockPosition = 1
    /\ unlockPosition = 0

-----------------------------------------------------------------------------
(* Position against displacement (CtlSpec)                                 *)

\* C21: with no move in flight, current_position is the sum of the deltas
\* passed to moveSteps since the latest setCenter(), or since the start when
\* setCenter() was never called.
C21_PositionTracksMoves ==
    motor = {} => position = tally.issued

C21_Witness ==
    /\ CalledInTurn("setCenter", "stepBackward")
    /\ prev.pos0 = 120
    /\ last.moves = <<-1>>
    /\ position = -1
    /\ tally.issued = -1

-----------------------------------------------------------------------------
(* Persistence across restarts (RestartSpec)                               *)

\* the pair a controller reads from CONFIG_FILE
StoredPair ==
    LET l == loadFromStorage(Constructed, store)
    IN  <<l.lock_position, l.unlock_position>>

\* C22: with saveToStorage succeeding, after begin() and after every later
\* call CONFIG_FILE holds the pair (lock_position, unlock_position) of the
\* controller; a restart leaves both as they were and starts with
\* current_position 0 and no pending return.
C22_StoreHoldsCalibration ==
    /\ [](calls # <<>> => StoredPair = <<lockPosition, unlockPosition>>)
    /\ [][(calls' # calls /\ calls'[Len(calls')].op = "restart")
            => /\ lockPosition' = lockPosition
               /\ unlockPosition' = unlockPosition
               /\ position' = 0
               /\ ~pending']_vars

C22_Witness ==
    /\ CalledInTurn("lock", "restart")
    /\ prev.pos0 = 0
    /\ last.pos0 = -1
    /\ lockPosition = -1
    /\ position = 0
    /\ ~pending

-----------------------------------------------------------------------------
(* The deferred return against the mode and the calls (FairSpec, Spec)     *)

\* C23: a /mode request leaves the pending flag as it was; a worker tick
\* that finds the flag set clears it and, away from 0, passes
\* -current_position to moveSteps, whatever the mode; and a return pending
\* in SETUP mode is eventually executed unless the process is told to stop.
C23_ReturnWhateverMode ==
    /\ (pending /\ controller.mode = "SETUP")
          ~> ((wpc = "loop" /\ ~pending /\ position = 0) \/ ~running)
    /\ [][(wpc = "sleep" /\ wpc' # "sleep" /\ pending)
            => /\ ~pending'
               /\ controller'.mode = controller.mode
               /\ position # 0
                    => /\ wpc' = "moving"
                       /\ motor' = motor \cup {InFlight(Worker, -position)}]_vars
    /\ [][\A t \in Handlers : Answers(t, {"/mode"}) => pending' = pending]_vars

\* the worker's return move is in flight in SETUP mode, no /step in sight
C23_Witness ==
    /\ controller.mode = "SETUP"
    /\ wpc = "moving"
    /\ motor = {InFlight(Worker, -80)}
    /\ \A t \in Handlers : req[t].path # "/step"
    /\ \E t \in Handlers : res[t] = [status |-> 200, mode |-> "setup"]

\* C24: the processReturnToCenter() calls that returned true are never
\* more than the lock()/unlock() calls that returned, and fewer while a
\* return is pending or under way; the count of returns goes up one at a
\* time, only for a return that was pending or under way, and leaves none
\* pending, so that the lock()/unlock() calls that came before one tick get
\* one return; and a tick that finds the flag set either has its move in
\* flight or has returned true.
C24_ReturnsWithinLocks ==
    /\ [](/\ tally.returns <= tally.locks
          /\ (pending \/ wpc = "moving") => tally.returns < tally.locks)
    /\ [][tally.returns' # tally.returns
            => /\ tally.returns' = tally.returns + 1
               /\ pending \/ wpc = "moving"
               /\ ~pending'
               /\ wpc' = "loop"]_vars
    /\ [][(wpc = "sleep" /\ wpc' # "sleep" /\ pending)
            => \/ wpc' = "moving"
               \/ tally.returns' = tally.returns + 1]_vars
    /\ [][(wpc = "moving" /\ wpc' # "moving")
            => tally.returns' = tally.returns + 1]_vars

\* two lock()/unlock() calls before the tick, one return after them
C24_Witness ==
    /\ tally.locks = 2
    /\ tally.returns = 1
    /\ ~pending
    /\ wpc = "loop"
    /\ position = 0
    /\ tally.issued = 0

=============================================================================
